---- MODULE Spec2Model ----
(***************************************************************************)
(* NEAREscrow (contracts/near/src/lib.rs): the hash-locked, time-locked    *)
(* escrow of a cross-chain swap.  Every public method of the contract is   *)
(* one action.  A NEAR method call is atomic: a panic rolls every write of *)
(* the call back, so a failed call changes nothing but the recorded        *)
(* outcome `last`.                                                         *)
(***************************************************************************)
EXTENDS Integers, Sequences, FiniteSets, TLC

(* ------------------------------ bounds -------------------------------- *)

\* Largest value of the Timestamp type (u64 in the source, scaled down).
MaxTimestamp == 9

\* The block timestamp stops growing here.
MaxTime == 3

\* u64 arithmetic is modulo this value.
TimestampModulus == MaxTimestamp + 1

Timestamps == 0..MaxTimestamp

OrderHashes == {"H1", "H2"}

Accounts == {"alice", "bob"}

Recipients == {"carol"}

Chains == {"ethereum"}

DstTokens == {"NEAR"}

Secrets == {"s3cr3t", "wrong"}

(* ------------------------------ values -------------------------------- *)

\* Option<T>: None is the empty sequence, Some(v) the one-element sequence.
None == <<>>

Some(v) == <<v>>

IsSome(o) == Len(o) = 1

Unwrap(o) == o[1]

unwrap_or(o, d) == IF IsSome(o) THEN Unwrap(o) ELSE d

\* Sha256::digest: a 32-byte value determined by its input; distinct inputs
\* of the model have distinct digests.
Sha256(bytes) == [len |-> 32, bytes |-> <<"sha256", bytes>>]

\* A 31-byte value, too short for a hash lock.
ShortHashLock == [len |-> 31, bytes |-> <<"raw", "short">>]

HashLocks == {Sha256("s3cr3t"), ShortHashLock}

(* ------------------------------- state -------------------------------- *)

VARIABLES
  owner,             \* NEAREscrow.owner
  swap_orders,       \* NEAREscrow.swap_orders, the values in insertion order
  deposits,          \* NEAREscrow.deposits
  supported_chains,  \* NEAREscrow.supported_chains
  min_timelock,      \* NEAREscrow.min_timelock
  max_timelock,      \* NEAREscrow.max_timelock
  now,               \* env::block_timestamp()
  paid,              \* per order hash, the number of payouts requested
  funds,             \* yoctoNEAR attached to the contract and sent by it
  last               \* the latest call and its outcome

vars == <<owner, swap_orders, deposits, supported_chains, min_timelock,
          max_timelock, now, paid, funds, last>>

contract == <<owner, swap_orders, deposits, supported_chains, min_timelock,
              max_timelock>>

\* 1 hour, scaled to the model's Timestamp range.
InitMinTimelock == 1

\* 24 hours, scaled to the model's Timestamp range.
InitMaxTimelock == 4

\* What the contract holds of the deposits attached to it: every attached
\* deposit, less every transfer a call has requested.  It is negative once
\* the transfers requested exceed the deposits attached.
Balance == funds.attached - funds.paid_out - funds.withdrawn

\* UnorderedMap::get
OrderIndex(order_hash) ==
  {i \in 1..Len(swap_orders) : swap_orders[i].order_hash = order_hash}

swap_orders_get(order_hash) ==
  IF OrderIndex(order_hash) = {}
  THEN None
  ELSE Some(swap_orders[CHOOSE i \in OrderIndex(order_hash) : TRUE])

\* UnorderedMap::insert: a new key is appended, an existing key keeps its
\* place and gets the new value.
swap_orders_insert(order_hash, swap_order) ==
  IF OrderIndex(order_hash) = {}
  THEN Append(swap_orders, swap_order)
  ELSE [i \in 1..Len(swap_orders) |->
          IF swap_orders[i].order_hash = order_hash
          THEN swap_order ELSE swap_orders[i]]

\* The outcome of a call: the panic message or "ok", the value a view
\* returns, and the transfer the call's Promise requests.
Outcome(op, caller, args, result, ret, transfer) ==
  [op |-> op, caller |-> caller, args |-> args, result |-> result,
   ret |-> ret, transfer |-> transfer]

Panic(op, caller, args, msg) ==
  /\ last' = Outcome(op, caller, args, msg, None, None)
  /\ UNCHANGED <<contract, now, paid, funds>>

(* ---------------------------- construction ---------------------------- *)

\* new(owner) leaves the allowlist empty; new_with_chains(owner, chains)
\* sets the flag of every listed chain.
Init ==
  /\ owner \in Accounts
  /\ swap_orders = <<>>
  /\ deposits = [h \in OrderHashes |-> None]
  /\ \E listed \in SUBSET Chains :
       supported_chains =
         [c \in Chains |-> IF c \in listed THEN Some(TRUE) ELSE None]
  /\ min_timelock = InitMinTimelock
  /\ max_timelock = InitMaxTimelock
  /\ now = 0
  /\ paid = [h \in OrderHashes |-> 0]
  /\ funds = [attached |-> 0, paid_out |-> 0, withdrawn |-> 0]
  /\ last = Outcome("new", owner, None, "ok", None, None)

(* ------------------------------ arithmetic ---------------------------- *)

\* a + b on u64 leaves the type's range.
AddOverflows(a, b) == a + b > MaxTimestamp

\* a + b on u64 in a build without overflow checks.
WrappingAdd(a, b) == (a + b) % TimestampModulus

(* ------------------------------ create_htlc --------------------------- *)

\* Faulty variant: an order hash already in use is accepted again.
create_htlc_check_NoExistsCheck(overflow_checks, deposit_amount, order_hash, src_chain, hash_lock, timelock) ==
  IF ~unwrap_or(supported_chains[src_chain], FALSE)
  THEN "Unsupported source chain"
  ELSE IF overflow_checks /\ AddOverflows(now, min_timelock)
  THEN "attempt to add with overflow"
  ELSE IF ~(timelock > WrappingAdd(now, min_timelock))
  THEN "Timelock too short"
  ELSE IF overflow_checks /\ AddOverflows(now, max_timelock)
  THEN "attempt to add with overflow"
  ELSE IF ~(timelock < WrappingAdd(now, max_timelock))
  THEN "Timelock too long"
  ELSE IF ~(hash_lock.len = 32)
  THEN "Invalid hash lock length"
  ELSE IF ~(deposit_amount > 0)
  THEN "Must attach deposit"
  ELSE "ok"

\* The assertions of create_htlc in source order: the message of the first
\* that fails, "ok" when all pass.  An addition that overflows panics in a
\* build with overflow checks and wraps in one without; overflow_checks
\* says which of the two outcomes this call has.
create_htlc_check(overflow_checks, deposit_amount, order_hash, src_chain, hash_lock, timelock) ==
  IF ~unwrap_or(supported_chains[src_chain], FALSE)
  THEN "Unsupported source chain"
  ELSE IF overflow_checks /\ AddOverflows(now, min_timelock)
  THEN "attempt to add with overflow"
  ELSE IF ~(timelock > WrappingAdd(now, min_timelock))
  THEN "Timelock too short"
  ELSE IF overflow_checks /\ AddOverflows(now, max_timelock)
  THEN "attempt to add with overflow"
  ELSE IF ~(timelock < WrappingAdd(now, max_timelock))
  THEN "Timelock too long"
  ELSE IF IsSome(swap_orders_get(order_hash))
  THEN "Order already exists"
  ELSE IF ~(hash_lock.len = 32)
  THEN "Invalid hash lock length"
  ELSE IF ~(deposit_amount > 0)
  THEN "Must attach deposit"
  ELSE "ok"

\* Faulty variant: dst_amount is taken from the src_amount argument.
create_htlc_order_SrcAmount(caller, deposit_amount, order_hash, src_maker, src_chain, src_token, src_amount, dst_recipient, dst_token, hash_lock, timelock) ==
  [order_hash |-> order_hash, src_maker |-> src_maker,
   src_chain |-> src_chain, src_token |-> src_token,
   src_amount |-> src_amount, dst_recipient |-> dst_recipient,
   dst_token |-> dst_token, dst_amount |-> src_amount,
   hash_lock |-> hash_lock, timelock |-> timelock, state |-> "Active",
   created_at |-> now, resolver |-> caller]

\* The SwapOrder create_htlc builds.
create_htlc_order(caller, deposit_amount, order_hash, src_maker, src_chain, src_token, src_amount, dst_recipient, dst_token, hash_lock, timelock) ==
  [order_hash |-> order_hash, src_maker |-> src_maker,
   src_chain |-> src_chain, src_token |-> src_token,
   src_amount |-> src_amount, dst_recipient |-> dst_recipient,
   dst_token |-> dst_token, dst_amount |-> deposit_amount,
   hash_lock |-> hash_lock, timelock |-> timelock, state |-> "Active",
   created_at |-> now, resolver |-> caller]

create_htlc(overflow_checks, caller, deposit_amount, order_hash, src_maker, src_chain, src_token, src_amount, dst_recipient, dst_token, hash_lock, timelock) ==
  LET args == [order_hash |-> order_hash, src_chain |-> src_chain,
               dst_recipient |-> dst_recipient, dst_token |-> dst_token,
               hash_lock |-> hash_lock, timelock |-> timelock,
               deposit |-> deposit_amount]
      check == create_htlc_check(overflow_checks, deposit_amount,
                                 order_hash, src_chain, hash_lock, timelock)
  IN IF check # "ok"
     THEN Panic("create_htlc", caller, args, check)
     ELSE /\ swap_orders' =
               swap_orders_insert(order_hash,
                 create_htlc_order(caller, deposit_amount, order_hash,
                                   src_maker, src_chain, src_token, src_amount,
                                   dst_recipient, dst_token, hash_lock,
                                   timelock))
          /\ deposits' = [deposits EXCEPT ![order_hash] = Some(deposit_amount)]
          /\ funds' = [funds EXCEPT !.attached = @ + deposit_amount]
          /\ last' = Outcome("create_htlc", caller, args, "ok", None, None)
          /\ UNCHANGED <<owner, supported_chains, min_timelock, max_timelock,
                         now, paid>>

(* ----------------------------- complete_htlc -------------------------- *)

\* Faulty variant: the deadline itself is already too late (< for <=).
complete_htlc_check_StrictDeadline(order_hash, secret) ==
  LET found == swap_orders_get(order_hash)
      swap_order == Unwrap(found)
  IN IF ~IsSome(found) THEN "Order not found"
     ELSE IF swap_order.state # "Active" THEN "Order not active"
     ELSE IF ~(now < swap_order.timelock) THEN "HTLC expired"
     ELSE IF Sha256(secret) # swap_order.hash_lock THEN "Invalid secret"
     ELSE IF ~IsSome(deposits[order_hash]) THEN "Deposit not found"
     ELSE "ok"

\* Faulty variant: the expiry check comes before the state check.
complete_htlc_check_ExpiryFirst(order_hash, secret) ==
  LET found == swap_orders_get(order_hash)
      swap_order == Unwrap(found)
  IN IF ~IsSome(found) THEN "Order not found"
     ELSE IF ~(now <= swap_order.timelock) THEN "HTLC expired"
     ELSE IF swap_order.state # "Active" THEN "Order not active"
     ELSE IF Sha256(secret) # swap_order.hash_lock THEN "Invalid secret"
     ELSE IF ~IsSome(deposits[order_hash]) THEN "Deposit not found"
     ELSE "ok"

\* Faulty variant: the source chain must still be on the allowlist.
complete_htlc_check_ChainRechecked(order_hash, secret) ==
  LET found == swap_orders_get(order_hash)
      swap_order == Unwrap(found)
  IN IF ~IsSome(found) THEN "Order not found"
     ELSE IF ~unwrap_or(supported_chains[swap_order.src_chain], FALSE)
     THEN "Unsupported source chain"
     ELSE IF swap_order.state # "Active" THEN "Order not active"
     ELSE IF ~(now <= swap_order.timelock) THEN "HTLC expired"
     ELSE IF Sha256(secret) # swap_order.hash_lock THEN "Invalid secret"
     ELSE IF ~IsSome(deposits[order_hash]) THEN "Deposit not found"
     ELSE "ok"

\* The panics of complete_htlc in source order.  The deposit is looked up
\* after the order is rewritten; a panic there rolls the rewrite back.
complete_htlc_check(order_hash, secret) ==
  LET found == swap_orders_get(order_hash)
      swap_order == Unwrap(found)
  IN IF ~IsSome(found) THEN "Order not found"
     ELSE IF swap_order.state # "Active" THEN "Order not active"
     ELSE IF ~(now <= swap_order.timelock) THEN "HTLC expired"
     ELSE IF Sha256(secret) # swap_order.hash_lock THEN "Invalid secret"
     ELSE IF ~IsSome(deposits[order_hash]) THEN "Deposit not found"
     ELSE "ok"

\* Faulty variant: the completed order is taken out of the map.
complete_htlc_orders_Removed(order_hash) ==
  SelectSeq(swap_orders, LAMBDA order : order.order_hash # order_hash)

\* swap_order.state = Completed; swap_orders.insert
complete_htlc_orders(order_hash) ==
  swap_orders_insert(order_hash,
    [Unwrap(swap_orders_get(order_hash)) EXCEPT !.state = "Completed"])

\* Faulty variant: the deposit entry is read but not removed.
complete_htlc_deposits_Kept(order_hash) ==
  deposits

\* deposits.remove
complete_htlc_deposits(order_hash) ==
  [deposits EXCEPT ![order_hash] = None]

\* Faulty variant: the payout is the order's src_amount.
complete_htlc_transfer_SrcAmount(order_hash) ==
  LET swap_order == Unwrap(swap_orders_get(order_hash))
  IN Some([to |-> swap_order.dst_recipient, amount |-> swap_order.src_amount])

\* Promise::new(dst_recipient).transfer(amount), on both token branches.
complete_htlc_transfer(order_hash) ==
  LET swap_order == Unwrap(swap_orders_get(order_hash))
      amount == Unwrap(deposits[order_hash])
  IN IF swap_order.dst_token = "NEAR"
     THEN Some([to |-> swap_order.dst_recipient, amount |-> amount])
     ELSE Some([to |-> swap_order.dst_recipient, amount |-> amount])

complete_htlc(caller, order_hash, secret) ==
  LET args == [order_hash |-> order_hash, secret |-> secret]
      check == complete_htlc_check(order_hash, secret)
  IN IF check # "ok"
     THEN Panic("complete_htlc", caller, args, check)
     ELSE /\ swap_orders' = complete_htlc_orders(order_hash)
          /\ deposits' = complete_htlc_deposits(order_hash)
          /\ paid' = [paid EXCEPT ![order_hash] = @ + 1]
          /\ funds' = [funds EXCEPT !.paid_out =
                         @ + Unwrap(complete_htlc_transfer(order_hash)).amount]
          /\ last' = Outcome("complete_htlc", caller, args, "ok", None,
                             complete_htlc_transfer(order_hash))
          /\ UNCHANGED <<owner, supported_chains, min_timelock, max_timelock,
                         now>>

(* ------------------------------ refund_htlc --------------------------- *)

\* Faulty variant: the state of the order is not checked.
refund_htlc_check_NoStateCheck(order_hash) ==
  LET found == swap_orders_get(order_hash)
      swap_order == Unwrap(found)
  IN IF ~IsSome(found) THEN "Order not found"
     ELSE IF ~(now > swap_order.timelock) THEN "HTLC not expired"
     ELSE IF ~IsSome(deposits[order_hash]) THEN "Deposit not found"
     ELSE "ok"

\* Faulty variant: a refund must wait min_timelock beyond the timelock.
refund_htlc_check_GracePeriod(order_hash) ==
  LET found == swap_orders_get(order_hash)
      swap_order == Unwrap(found)
  IN IF ~IsSome(found) THEN "Order not found"
     ELSE IF swap_order.state # "Active" THEN "Order not active"
     ELSE IF ~(now > swap_order.timelock + min_timelock)
     THEN "HTLC not expired"
     ELSE IF ~IsSome(deposits[order_hash]) THEN "Deposit not found"
     ELSE "ok"

\* The panics of refund_htlc in source order.
refund_htlc_check(order_hash) ==
  LET found == swap_orders_get(order_hash)
      swap_order == Unwrap(found)
  IN IF ~IsSome(found) THEN "Order not found"
     ELSE IF swap_order.state # "Active" THEN "Order not active"
     ELSE IF ~(now > swap_order.timelock) THEN "HTLC not expired"
     ELSE IF ~IsSome(deposits[order_hash]) THEN "Deposit not found"
     ELSE "ok"

\* swap_order.state = Refunded; swap_orders.insert
refund_htlc_orders(order_hash) ==
  swap_orders_insert(order_hash,
    [Unwrap(swap_orders_get(order_hash)) EXCEPT !.state = "Refunded"])

\* deposits.remove
refund_htlc_deposits(order_hash) ==
  [deposits EXCEPT ![order_hash] = None]

\* Faulty variant: the refund goes to the order's recipient.
refund_htlc_transfer_ToRecipient(order_hash) ==
  Some([to |-> Unwrap(swap_orders_get(order_hash)).dst_recipient,
        amount |-> Unwrap(deposits[order_hash])])

\* Promise::new(resolver).transfer(amount)
refund_htlc_transfer(order_hash) ==
  Some([to |-> Unwrap(swap_orders_get(order_hash)).resolver,
        amount |-> Unwrap(deposits[order_hash])])

refund_htlc(caller, order_hash) ==
  LET args == [order_hash |-> order_hash]
      check == refund_htlc_check(order_hash)
  IN IF check # "ok"
     THEN Panic("refund_htlc", caller, args, check)
     ELSE /\ swap_orders' = refund_htlc_orders(order_hash)
          /\ deposits' = refund_htlc_deposits(order_hash)
          /\ paid' = [paid EXCEPT ![order_hash] = @ + 1]
          /\ funds' = [funds EXCEPT !.paid_out =
                         @ + Unwrap(refund_htlc_transfer(order_hash)).amount]
          /\ last' = Outcome("refund_htlc", caller, args, "ok", None,
                             refund_htlc_transfer(order_hash))
          /\ UNCHANGED <<owner, supported_chains, min_timelock, max_timelock,
                         now>>

(* ---------------------------------- views ----------------------------- *)

get_swap_order(order_hash) ==
  /\ last' = Outcome("get_swap_order", "view", [order_hash |-> order_hash],
                     "ok", Some(swap_orders_get(order_hash)), None)
  /\ UNCHANGED <<contract, now, paid, funds>>

\* Faulty variant: the deadline is not looked at.
is_htlc_active_result_StateOnly(order_hash) ==
  IF IsSome(swap_orders_get(order_hash))
  THEN Unwrap(swap_orders_get(order_hash)).state = "Active"
  ELSE FALSE

is_htlc_active_result(order_hash) ==
  IF IsSome(swap_orders_get(order_hash))
  THEN /\ Unwrap(swap_orders_get(order_hash)).state = "Active"
       /\ now <= Unwrap(swap_orders_get(order_hash)).timelock
  ELSE FALSE

is_htlc_active(order_hash) ==
  /\ last' = Outcome("is_htlc_active", "view", [order_hash |-> order_hash],
                     "ok", Some(is_htlc_active_result(order_hash)), None)
  /\ UNCHANGED <<contract, now, paid, funds>>

\* Faulty variant: only the length of the hash lock is looked at.
verify_secret_result_LengthOnly(secret, hash_lock) ==
  Sha256(secret).len = hash_lock.len

\* env::sha256(&secret) == hash_lock
verify_secret_result(secret, hash_lock) ==
  Sha256(secret) = hash_lock

verify_secret(secret, hash_lock) ==
  /\ last' = Outcome("verify_secret", "view",
                     [secret |-> secret, hash_lock |-> hash_lock], "ok",
                     Some(verify_secret_result(secret, hash_lock)), None)
  /\ UNCHANGED <<contract, now, paid, funds>>

\* The values of swap_orders from position start + 1 on, at most limit of
\* them: values().skip(start).take(limit).
SkipTake(start, limit) ==
  SubSeq(swap_orders, start + 1,
         IF start + limit < Len(swap_orders)
         THEN start + limit ELSE Len(swap_orders))

\* skip, take, then filter on the stored state.
get_active_orders_result(from_index, limit) ==
  SelectSeq(SkipTake(unwrap_or(from_index, 0), unwrap_or(limit, 10)),
            LAMBDA order : order.state = "Active")

get_active_orders(from_index, limit) ==
  /\ last' = Outcome("get_active_orders", "view",
                     [from_index |-> from_index, limit |-> limit], "ok",
                     get_active_orders_result(from_index, limit), None)
  /\ UNCHANGED <<contract, now, paid, funds>>

(* ------------------------------ owner functions ----------------------- *)

\* Faulty variant: any caller passes.
assert_owner_Anyone(caller) ==
  "ok"

\* assert_owner: the panic message, or "ok".
assert_owner(caller) ==
  IF caller = owner THEN "ok" ELSE "Only owner can call this method"

add_supported_chain(caller, chain) ==
  LET args == [chain |-> chain]
  IN IF assert_owner(caller) # "ok"
     THEN Panic("add_supported_chain", caller, args, assert_owner(caller))
     ELSE /\ supported_chains' = [supported_chains EXCEPT ![chain] = Some(TRUE)]
          /\ last' = Outcome("add_supported_chain", caller, args, "ok", None, None)
          /\ UNCHANGED <<owner, swap_orders, deposits, min_timelock,
                         max_timelock, now, paid, funds>>

\* Faulty variant: the flag is inserted as true, as add_supported_chain does.
remove_supported_chain_InsertsTrue(caller, chain) ==
  LET args == [chain |-> chain]
  IN IF assert_owner(caller) # "ok"
     THEN Panic("remove_supported_chain", caller, args, assert_owner(caller))
     ELSE /\ supported_chains' = [supported_chains EXCEPT ![chain] = Some(TRUE)]
          /\ last' = Outcome("remove_supported_chain", caller, args, "ok", None, None)
          /\ UNCHANGED <<owner, swap_orders, deposits, min_timelock,
                         max_timelock, now, paid, funds>>

\* supported_chains.insert(&chain, &false): the key stays, the flag is false.
remove_supported_chain(caller, chain) ==
  LET args == [chain |-> chain]
  IN IF assert_owner(caller) # "ok"
     THEN Panic("remove_supported_chain", caller, args, assert_owner(caller))
     ELSE /\ supported_chains' = [supported_chains EXCEPT ![chain] = Some(FALSE)]
          /\ last' = Outcome("remove_supported_chain", caller, args, "ok", None, None)
          /\ UNCHANGED <<owner, swap_orders, deposits, min_timelock,
                         max_timelock, now, paid, funds>>

\* Faulty variant: the two limits are not compared.
update_timelock_limits_check_Unordered(caller, new_min, new_max) ==
  assert_owner(caller)

\* assert_owner, then min_timelock < max_timelock.
update_timelock_limits_check(caller, new_min, new_max) ==
  IF assert_owner(caller) # "ok" THEN assert_owner(caller)
  ELSE IF ~(new_min < new_max) THEN "Invalid timelock limits"
  ELSE "ok"

update_timelock_limits(caller, new_min, new_max) ==
  LET args == [min_timelock |-> new_min, max_timelock |-> new_max]
      check == update_timelock_limits_check(caller, new_min, new_max)
  IN IF check # "ok"
     THEN Panic("update_timelock_limits", caller, args, check)
     ELSE /\ min_timelock' = new_min
          /\ max_timelock' = new_max
          /\ last' = Outcome("update_timelock_limits", caller, args, "ok", None, None)
          /\ UNCHANGED <<owner, swap_orders, deposits, supported_chains, now,
                         paid, funds>>

\* The sum of the deposit entries of the order hashes in hashes.
RECURSIVE DepositsOf(_)
DepositsOf(hashes) ==
  IF hashes = {} THEN 0
  ELSE LET order_hash == CHOOSE h \in hashes : TRUE
       IN unwrap_or(deposits[order_hash], 0)
            + DepositsOf(hashes \ {order_hash})

\* Faulty variant: only what no deposit entry accounts for can be withdrawn.
emergency_withdraw_Earmarked(caller, amount) ==
  LET args == [amount |-> amount]
  IN IF assert_owner(caller) # "ok"
     THEN Panic("emergency_withdraw", caller, args, assert_owner(caller))
     ELSE IF amount > Balance - DepositsOf(OrderHashes)
     THEN Panic("emergency_withdraw", caller, args, "Insufficient balance")
     ELSE /\ last' = Outcome("emergency_withdraw", caller, args, "ok", None,
                             Some([to |-> owner, amount |-> amount]))
          /\ funds' = [funds EXCEPT !.withdrawn = @ + amount]
          /\ UNCHANGED <<contract, now, paid>>

\* Promise::new(owner).transfer(amount)
emergency_withdraw(caller, amount) ==
  LET args == [amount |-> amount]
  IN IF assert_owner(caller) # "ok"
     THEN Panic("emergency_withdraw", caller, args, assert_owner(caller))
     ELSE /\ last' = Outcome("emergency_withdraw", caller, args, "ok", None,
                             Some([to |-> owner, amount |-> amount]))
          /\ funds' = [funds EXCEPT !.withdrawn = @ + amount]
          /\ UNCHANGED <<contract, now, paid>>

transfer_ownership(caller, new_owner) ==
  LET args == [new_owner |-> new_owner]
  IN IF assert_owner(caller) # "ok"
     THEN Panic("transfer_ownership", caller, args, assert_owner(caller))
     ELSE /\ owner' = new_owner
          /\ last' = Outcome("transfer_ownership", caller, args, "ok", None, None)
          /\ UNCHANGED <<swap_orders, deposits, supported_chains, min_timelock,
                         max_timelock, now, paid, funds>>

(* ------------------------------ environment --------------------------- *)

\* The block timestamp grows from block to block.
AdvanceTime ==
  /\ now < MaxTime
  /\ now' = now + 1
  /\ last' = Outcome("advance_time", "env", None, "ok", None, None)
  /\ UNCHANGED <<contract, paid, funds>>

(* ----------------------------- specifications ------------------------- *)

SrcMakers == {"0xmaker"}

SrcTokens == {"ETH"}

SrcAmounts == {100}

\* Distances from the block timestamp to the timelock a creator asks for.
TimelockOffsets == {2, 3}

\* The swap lifecycle: orders are created by one resolver under the initial
\* limits, then completed or refunded by anyone as time passes.
SwapCreate ==
  \E overflow_checks \in BOOLEAN, deposit_amount \in {1, 2},
     order_hash \in OrderHashes, src_maker \in SrcMakers,
     src_chain \in Chains, src_token \in SrcTokens,
     src_amount \in SrcAmounts, dst_recipient \in Recipients,
     dst_token \in DstTokens, offset \in TimelockOffsets :
    create_htlc(overflow_checks, "bob", deposit_amount, order_hash, src_maker,
                src_chain, src_token, src_amount, dst_recipient, dst_token,
                Sha256("s3cr3t"), now + offset)

SwapComplete ==
  \E order_hash \in OrderHashes, secret \in Secrets :
    complete_htlc("alice", order_hash, secret)

SwapRefund ==
  \E caller \in Accounts, order_hash \in OrderHashes :
    refund_htlc(caller, order_hash)

SwapNext ==
  \/ SwapCreate
  \/ SwapComplete
  \/ SwapRefund
  \/ AdvanceTime

\* The contract as new_with_chains("alice", ["ethereum"]) leaves it.
SwapInit ==
  /\ Init
  /\ owner = "alice"
  /\ supported_chains["ethereum"] = Some(TRUE)

Spec == SwapInit /\ [][SwapNext]_vars

\* The limits an owner passes to update_timelock_limits.
AdminLimitValues == {2, 3}

\* The whole mutating surface on one order: the owner functions called by
\* the owner and by another account, around an order that is created,
\* completed or refunded.
AdminCreate ==
  \E overflow_checks \in BOOLEAN, deposit_amount \in {0, 1, 2},
     src_maker \in SrcMakers,
     src_chain \in Chains, src_token \in SrcTokens,
     src_amount \in SrcAmounts, dst_recipient \in Recipients,
     dst_token \in DstTokens :
    create_htlc(overflow_checks, "bob", deposit_amount, "H1", src_maker,
                src_chain, src_token, src_amount, dst_recipient, dst_token,
                Sha256("s3cr3t"), now + 2)

AdminComplete ==
  \E secret \in Secrets : complete_htlc("alice", "H1", secret)

AdminRefund ==
  \E caller \in Accounts : refund_htlc(caller, "H1")

AddSupportedChain ==
  \E caller \in Accounts, chain \in Chains :
    add_supported_chain(caller, chain)

RemoveSupportedChain ==
  \E caller \in Accounts, chain \in Chains :
    remove_supported_chain(caller, chain)

UpdateTimelockLimits ==
  \E caller \in Accounts, new_min \in AdminLimitValues,
     new_max \in AdminLimitValues :
    update_timelock_limits(caller, new_min, new_max)

\* No more is asked for than the contract holds.
EmergencyWithdraw ==
  \E caller \in Accounts, amount \in {1, 2} :
    /\ amount <= Balance
    /\ emergency_withdraw(caller, amount)

GetSwapOrder ==
  \E order_hash \in OrderHashes : get_swap_order(order_hash)

TransferOwnership ==
  \E caller \in Accounts, new_owner \in Accounts :
    transfer_ownership(caller, new_owner)

AdminNext ==
  \/ AdminCreate
  \/ AdminComplete
  \/ AdminRefund
  \/ AddSupportedChain
  \/ RemoveSupportedChain
  \/ UpdateTimelockLimits
  \/ EmergencyWithdraw
  \/ TransferOwnership
  \/ GetSwapOrder
  \/ AdvanceTime

AdminSpec == Init /\ [][AdminNext]_vars

\* Creation with every kind of argument: any caller, with or without a
\* deposit, a hash lock of the right or the wrong length, a timelock too
\* near, in the window or too far, on a fresh or a used order hash.
CreateOffsets == {1, 2, 4}

CreateAny ==
  \E overflow_checks \in BOOLEAN, caller \in Accounts,
     deposit_amount \in {0, 2}, order_hash \in OrderHashes,
     src_maker \in SrcMakers, src_chain \in Chains, src_token \in SrcTokens,
     src_amount \in SrcAmounts, dst_recipient \in Recipients,
     dst_token \in DstTokens, hash_lock \in HashLocks,
     offset \in CreateOffsets :
    create_htlc(overflow_checks, caller, deposit_amount, order_hash,
                src_maker, src_chain, src_token, src_amount, dst_recipient,
                dst_token, hash_lock, now + offset)

CreateComplete ==
  \E order_hash \in OrderHashes : complete_htlc("alice", order_hash, "s3cr3t")

CreateRefund ==
  \E order_hash \in OrderHashes : refund_htlc("alice", order_hash)

CreateNext ==
  \/ CreateAny
  \/ CreateComplete
  \/ CreateRefund
  \/ AdvanceTime

CreateInit ==
  /\ Init
  /\ owner = "alice"

CreateSpec == CreateInit /\ [][CreateNext]_vars

\* Timelock limits near the top of the Timestamp range, and creation with
\* any timelock under them.
OverflowLimitValues == {1, MaxTimestamp - 2, MaxTimestamp}

OverflowCreate ==
  \E overflow_checks \in BOOLEAN, src_maker \in SrcMakers,
     src_chain \in Chains, src_token \in SrcTokens,
     src_amount \in SrcAmounts, dst_recipient \in Recipients,
     dst_token \in DstTokens, timelock \in Timestamps :
    create_htlc(overflow_checks, "bob", 2, "H1", src_maker, src_chain,
                src_token, src_amount, dst_recipient, dst_token,
                Sha256("s3cr3t"), timelock)

OverflowLimits ==
  \E new_min \in OverflowLimitValues, new_max \in OverflowLimitValues :
    update_timelock_limits(owner, new_min, new_max)

OverflowNext ==
  \/ OverflowCreate
  \/ OverflowLimits
  \/ AdvanceTime

OverflowSpec == SwapInit /\ [][OverflowNext]_vars

\* The views, called between the steps of a swap lifecycle.
PageArguments == {None} \cup {Some(n) : n \in 0..2}

QueryCreate ==
  \E overflow_checks \in BOOLEAN, order_hash \in OrderHashes,
     src_maker \in SrcMakers, src_chain \in Chains, src_token \in SrcTokens,
     src_amount \in SrcAmounts, dst_recipient \in Recipients,
     dst_token \in DstTokens :
    create_htlc(overflow_checks, "bob", 2, order_hash, src_maker, src_chain,
                src_token, src_amount, dst_recipient, dst_token,
                Sha256("s3cr3t"), now + 2)

QueryGetActiveOrders ==
  \E from_index \in PageArguments, limit \in PageArguments :
    get_active_orders(from_index, limit)

QueryComplete ==
  \E order_hash \in OrderHashes, secret \in Secrets :
    complete_htlc("alice", order_hash, secret)

QueryGetSwapOrder ==
  \E order_hash \in OrderHashes : get_swap_order(order_hash)

QueryIsHtlcActive ==
  \E order_hash \in OrderHashes : is_htlc_active(order_hash)

\* The hash locks a caller passes to verify_secret: the hash of either
\* secret, or bytes of another length.
QueryHashLocks == {Sha256(secret) : secret \in Secrets} \cup {ShortHashLock}

QueryVerifySecret ==
  \E secret \in Secrets, hash_lock \in QueryHashLocks :
    verify_secret(secret, hash_lock)

QueryNext ==
  \/ QueryCreate
  \/ QueryComplete
  \/ CreateRefund
  \/ QueryGetActiveOrders
  \/ QueryGetSwapOrder
  \/ QueryIsHtlcActive
  \/ QueryVerifySecret
  \/ AdvanceTime

QuerySpec == SwapInit /\ [][QueryNext]_vars

\* Orders whose timelock falls inside the modelled time, with the block
\* timestamp advancing and a refund that has become possible being called.
LiveCreate ==
  \E overflow_checks \in BOOLEAN, order_hash \in OrderHashes,
     src_maker \in SrcMakers, src_chain \in Chains, src_token \in SrcTokens,
     src_amount \in SrcAmounts, dst_recipient \in Recipients,
     dst_token \in DstTokens :
    /\ now + 2 < MaxTime
    /\ create_htlc(overflow_checks, "bob", 2, order_hash, src_maker,
                   src_chain, src_token, src_amount, dst_recipient, dst_token,
                   Sha256("s3cr3t"), now + 2)

LiveRefund(order_hash) ==
  \E caller \in Accounts :
    /\ refund_htlc_check(order_hash) = "ok"
    /\ refund_htlc(caller, order_hash)

LiveNext ==
  \/ LiveCreate
  \/ QueryComplete
  \/ SwapRefund
  \/ AdvanceTime

LiveFairness ==
  /\ WF_vars(AdvanceTime)
  /\ \A order_hash \in OrderHashes : WF_vars(LiveRefund(order_hash))

LiveSpec == SwapInit /\ [][LiveNext]_vars /\ LiveFairness

(* -------------------------------- claims ------------------------------ *)

IsSwapCall(op, order_hash) ==
  /\ last.op = op
  /\ last.args.order_hash = order_hash

\* The order stored for order_hash, which exists.
order_of(order_hash) == Unwrap(swap_orders_get(order_hash))

IsTerminal(order_hash) ==
  /\ IsSome(swap_orders_get(order_hash))
  /\ order_of(order_hash).state \in {"Completed", "Refunded"}

\* C1: no order is ever paid out more than once, and a complete_htlc or
\* refund_htlc call on an order that has already been paid out fails on its
\* state check ("Order not active"), whichever of the two calls came first.
C1_AtMostOnePayout ==
  \A order_hash \in OrderHashes :
    /\ paid[order_hash] <= 1
    /\ (/\ paid[order_hash] = 1
        /\ \/ IsSwapCall("complete_htlc", order_hash)
           \/ IsSwapCall("refund_htlc", order_hash)
        /\ last.transfer = None)
       => last.result = "Order not active"

\* A refund_htlc that lost the race against a complete_htlc it could have
\* won a step later: the order is paid out and the refund failed.
C1_Witness ==
  \E order_hash \in OrderHashes :
    /\ paid[order_hash] = 1
    /\ IsSwapCall("refund_htlc", order_hash)
    /\ last.result = "Order not active"
    /\ order_of(order_hash).state = "Completed"
    /\ now > order_of(order_hash).timelock

\* C2: the deposits map has an entry for an order hash exactly when
\* swap_orders holds an order for it whose stored state is Active.
C2_DepositIffActive ==
  \A order_hash \in OrderHashes :
    IsSome(deposits[order_hash]) <=>
      (/\ IsSome(swap_orders_get(order_hash))
       /\ order_of(order_hash).state = "Active")

\* One order still funded next to one whose deposit was paid out.
C2_Witness ==
  \E a, b \in OrderHashes :
    /\ IsSome(deposits[a])
    /\ order_of(a).state = "Active"
    /\ IsTerminal(b)
    /\ ~IsSome(deposits[b])

\* C3: complete_htlc on an existing order succeeds exactly when the order is
\* Active, the block timestamp is at most the timelock and the secret's
\* SHA-256 digest equals the hash lock; then the order becomes Completed, its
\* deposit entry is removed and the removed amount goes to dst_recipient;
\* otherwise orders, deposits and allowlist are unchanged and nothing is
\* transferred.
C3_CompleteIff ==
  [][\A order_hash \in OrderHashes, secret \in Secrets :
       (/\ last'.op = "complete_htlc"
        /\ last'.args = [order_hash |-> order_hash, secret |-> secret]
        /\ IsSome(swap_orders_get(order_hash)))
       => IF /\ order_of(order_hash).state = "Active"
             /\ now <= order_of(order_hash).timelock
             /\ Sha256(secret) = order_of(order_hash).hash_lock
          THEN /\ last'.result = "ok"
               /\ order_of(order_hash)' =
                    [order_of(order_hash) EXCEPT !.state = "Completed"]
               /\ IsSome(deposits[order_hash])
               /\ deposits'[order_hash] = None
               /\ last'.transfer =
                    Some([to |-> order_of(order_hash).dst_recipient,
                          amount |-> Unwrap(deposits[order_hash])])
          ELSE /\ last'.result # "ok"
               /\ UNCHANGED <<swap_orders, deposits, supported_chains>>
               /\ last'.transfer = None
    ]_vars

\* A completion at the last permitted instant, now = timelock, paid to the
\* recipient.
C3_Witness ==
  \E order_hash \in OrderHashes :
    /\ IsSwapCall("complete_htlc", order_hash)
    /\ last.result = "ok"
    /\ order_of(order_hash).state = "Completed"
    /\ now = order_of(order_hash).timelock
    /\ last.transfer = Some([to |-> order_of(order_hash).dst_recipient,
                             amount |-> order_of(order_hash).dst_amount])

\* C4: refund_htlc on an existing order succeeds exactly when the order is
\* Active and the block timestamp is strictly past the timelock; then the
\* order becomes Refunded, its deposit entry is removed and the held amount
\* goes to the order's resolver, whoever calls; otherwise orders and
\* deposits are unchanged and nothing is transferred.
C4_RefundIff ==
  [][\A order_hash \in OrderHashes :
       (/\ last'.op = "refund_htlc"
        /\ last'.args = [order_hash |-> order_hash]
        /\ IsSome(swap_orders_get(order_hash)))
       => IF /\ order_of(order_hash).state = "Active"
             /\ now > order_of(order_hash).timelock
          THEN /\ last'.result = "ok"
               /\ order_of(order_hash)' =
                    [order_of(order_hash) EXCEPT !.state = "Refunded"]
               /\ IsSome(deposits[order_hash])
               /\ deposits'[order_hash] = None
               /\ last'.transfer =
                    Some([to |-> order_of(order_hash).resolver,
                          amount |-> Unwrap(deposits[order_hash])])
          ELSE /\ last'.result # "ok"
               /\ UNCHANGED <<swap_orders, deposits>>
               /\ last'.transfer = None
    ]_vars

\* A refund called by an account other than the resolver, paid to the
\* resolver.
C4_Witness ==
  \E order_hash \in OrderHashes :
    /\ IsSwapCall("refund_htlc", order_hash)
    /\ last.result = "ok"
    /\ order_of(order_hash).state = "Refunded"
    /\ last.caller # order_of(order_hash).resolver
    /\ last.transfer = Some([to |-> order_of(order_hash).resolver,
                             amount |-> order_of(order_hash).dst_amount])

\* C5: a Completed or Refunded order keeps its stored state, and every later
\* complete_htlc or refund_htlc on it fails with "Order not active",
\* whatever the time and the secret.
C5_TerminalStays ==
  [][\A order_hash \in OrderHashes :
       IsTerminal(order_hash)
       => /\ IsSome(swap_orders_get(order_hash)')
          /\ order_of(order_hash)'.state = order_of(order_hash).state
          /\ (/\ last'.op \in {"complete_htlc", "refund_htlc"}
              /\ last'.args.order_hash = order_hash)
             => last'.result = "Order not active"
    ]_vars

\* complete_htlc with the right secret on a Refunded order, whose timelock
\* has passed: the state check answers, not the expiry check.
C5_Witness ==
  \E order_hash \in OrderHashes :
    /\ IsSwapCall("complete_htlc", order_hash)
    /\ last.args.secret = "s3cr3t"
    /\ IsTerminal(order_hash)
    /\ order_of(order_hash).state = "Refunded"
    /\ now > order_of(order_hash).timelock
    /\ last.result = "Order not active"

IsCreateCall(order_hash) ==
  /\ last.op = "create_htlc"
  /\ last.args.order_hash = order_hash

\* C6: a create_htlc call that passes its checks stores an Active order
\* whose dst_amount is the attached deposit, whose resolver is the caller
\* and whose created_at is the block timestamp, enters the attached deposit
\* in the deposits map and transfers nothing; every other order and deposit
\* entry stays as it was.
C6_CreateStores ==
  [][\A order_hash \in OrderHashes :
       (IsCreateCall(order_hash)' /\ last'.result = "ok")
       => /\ IsSome(swap_orders_get(order_hash)')
          /\ order_of(order_hash)'.state = "Active"
          /\ order_of(order_hash)'.dst_amount = last'.args.deposit
          /\ order_of(order_hash)'.resolver = last'.caller
          /\ order_of(order_hash)'.created_at = now
          /\ deposits'[order_hash] = Some(last'.args.deposit)
          /\ last'.transfer = None
          /\ \A other \in OrderHashes \ {order_hash} :
               /\ swap_orders_get(other)' = swap_orders_get(other)
               /\ deposits'[other] = deposits[other]
    ]_vars

\* A second order created by another caller next to an existing one.
C6_Witness ==
  \E order_hash \in OrderHashes, other \in OrderHashes :
    /\ other # order_hash
    /\ IsCreateCall(order_hash)
    /\ last.result = "ok"
    /\ IsSome(swap_orders_get(other))
    /\ order_of(other).resolver # last.caller
    /\ order_of(order_hash).resolver = last.caller
    /\ order_of(order_hash).dst_amount = 2
    /\ deposits[order_hash] = Some(2)

\* C7: create_htlc on an order hash that already has an order, in whatever
\* state, fails and leaves orders and deposits unchanged; when the chain is
\* supported and the timelock lies in the window the failure is "Order
\* already exists".
C7_NoRecreate ==
  [][\A order_hash \in OrderHashes :
       (IsCreateCall(order_hash)' /\ IsSome(swap_orders_get(order_hash)))
       => /\ last'.result # "ok"
          /\ UNCHANGED <<swap_orders, deposits>>
          /\ (/\ unwrap_or(supported_chains[last'.args.src_chain], FALSE)
              /\ last'.args.timelock > now + min_timelock
              /\ last'.args.timelock < now + max_timelock)
             => last'.result = "Order already exists"
    ]_vars

\* An otherwise valid create_htlc on the hash of a Refunded order.
C7_Witness ==
  \E order_hash \in OrderHashes :
    /\ IsCreateCall(order_hash)
    /\ IsTerminal(order_hash)
    /\ order_of(order_hash).state = "Refunded"
    /\ last.args.deposit > 0
    /\ last.args.hash_lock.len = 32
    /\ last.result = "Order already exists"

\* C8: every order is stored with
\* min_timelock < timelock - created_at < max_timelock, for the limits in
\* force at its creation.
C8_TimelockWindow ==
  [][\A order_hash \in OrderHashes :
       (IsCreateCall(order_hash)' /\ last'.result = "ok")
       => /\ min_timelock <
               order_of(order_hash)'.timelock - order_of(order_hash)'.created_at
          /\ order_of(order_hash)'.timelock - order_of(order_hash)'.created_at
               < max_timelock
    ]_vars

\* The Active orders in creation order.
ActiveOrders ==
  SelectSeq(swap_orders, LAMBDA order : order.state = "Active")

\* At most take Active orders, starting after the first skip Active ones.
ActivePage(skip, take) ==
  SubSeq(ActiveOrders, skip + 1,
         IF skip + take < Len(ActiveOrders)
         THEN skip + take ELSE Len(ActiveOrders))

\* C9: get_active_orders(skip, take) returns at most take orders, all
\* Active, in creation order, starting after skip Active entries, so that a
\* page is short only when no further Active order remains.
C9_ActivePaging ==
  last.op = "get_active_orders"
  => last.ret = ActivePage(unwrap_or(last.args.from_index, 0),
                           unwrap_or(last.args.limit, 10))
OwnerFunctions ==
  {"add_supported_chain", "remove_supported_chain", "update_timelock_limits",
   "emergency_withdraw", "transfer_ownership"}

\* C10: each owner function called by an account other than the stored
\* owner fails with "Only owner can call this method"; called by the stored
\* owner it succeeds, update_timelock_limits only when min < max.  A failed
\* call leaves owner, allowlist, limits, orders and deposits unchanged and
\* transfers nothing.
C10_OwnerOnly ==
  [][last'.op \in OwnerFunctions
     => /\ last'.caller # owner
           => last'.result = "Only owner can call this method"
        /\ last'.caller = owner
           => IF /\ last'.op = "update_timelock_limits"
                 /\ ~(last'.args.min_timelock < last'.args.max_timelock)
              THEN last'.result = "Invalid timelock limits"
              ELSE last'.result = "ok"
        /\ last'.result # "ok"
           => /\ UNCHANGED contract
              /\ last'.transfer = None
    ]_vars

\* emergency_withdraw refused to an account that is not the owner while a
\* deposit is held, after ownership has changed hands.
C10_Witness ==
  /\ last.op = "emergency_withdraw"
  /\ last.caller = "alice"
  /\ owner = "bob"
  /\ last.result = "Only owner can call this method"
  /\ last.transfer = None
  /\ IsSome(deposits["H1"])

\* C11: create_htlc fails with the unsupported-chain error exactly when the
\* allowlist flag of src_chain is absent or false, whatever its other
\* arguments are; remove_supported_chain(c) by the owner leaves the flag of c
\* stored as false, and add_supported_chain(c) by the owner leaves it true,
\* so creation for c is refused after the one and accepted again after the
\* other.
C11_ChainGating ==
  [][\A chain \in Chains :
       /\ (/\ last'.op = "create_htlc"
           /\ last'.args.src_chain = chain)
          => (last'.result = "Unsupported source chain"
                <=> supported_chains[chain] # Some(TRUE))
       /\ (/\ last'.op = "remove_supported_chain"
           /\ last'.args = [chain |-> chain]
           /\ last'.result = "ok")
          => supported_chains'[chain] = Some(FALSE)
       /\ (/\ last'.op = "add_supported_chain"
           /\ last'.args = [chain |-> chain]
           /\ last'.result = "ok")
          => supported_chains'[chain] = Some(TRUE)
    ]_vars

\* A chain that was removed keeps its key with the flag false, and a
\* creation for it is refused.
C11_Witness ==
  \E chain \in Chains :
    /\ last.op = "create_htlc"
    /\ last.args.src_chain = chain
    /\ last.result = "Unsupported source chain"
    /\ supported_chains[chain] = Some(FALSE)

\* C12: the owner functions leave every stored order and deposit as they
\* are, and complete_htlc and refund_htlc succeed on an existing order under
\* conditions on the order, the secret and the block timestamp alone, also
\* after the order's chain was removed, the limits were changed to ones the
\* order does not satisfy, or the ownership was transferred.
C12_AdminFrame ==
  [][/\ last'.op \in OwnerFunctions => UNCHANGED <<swap_orders, deposits>>
     /\ \A order_hash \in OrderHashes, secret \in Secrets :
          (/\ last'.op = "complete_htlc"
           /\ last'.args = [order_hash |-> order_hash, secret |-> secret]
           /\ IsSome(swap_orders_get(order_hash)))
          => (last'.result = "ok"
                <=> /\ order_of(order_hash).state = "Active"
                    /\ now <= order_of(order_hash).timelock
                    /\ Sha256(secret) = order_of(order_hash).hash_lock)
     /\ \A order_hash \in OrderHashes :
          (/\ last'.op = "refund_htlc"
           /\ last'.args = [order_hash |-> order_hash]
           /\ IsSome(swap_orders_get(order_hash)))
          => (last'.result = "ok"
                <=> /\ order_of(order_hash).state = "Active"
                    /\ now > order_of(order_hash).timelock)
    ]_vars

\* An order is completed after its chain was removed and the limits were
\* raised above its timelock distance.
C12_Witness ==
  \E order_hash \in OrderHashes :
    /\ IsSwapCall("complete_htlc", order_hash)
    /\ last.result = "ok"
    /\ supported_chains[order_of(order_hash).src_chain] = Some(FALSE)
    /\ ~(order_of(order_hash).timelock
           > order_of(order_hash).created_at + min_timelock)

\* C13: emergency_withdraw(amount) called by the owner always succeeds,
\* requests the transfer of amount to the owner and leaves the orders and
\* the deposits as they are, however much of the balance the deposits of
\* Active orders account for.
C13_WithdrawUnconditional ==
  [][(/\ last'.op = "emergency_withdraw"
      /\ last'.caller = owner)
     => /\ last'.result = "ok"
        /\ last'.transfer = Some([to |-> owner, amount |-> last'.args.amount])
        /\ UNCHANGED <<swap_orders, deposits>>
    ]_vars

\* After a withdrawal, a completion or refund passed all its checks and
\* requested a payout larger than what the contract still held.
C13_Witness ==
  /\ last.op \in {"complete_htlc", "refund_htlc"}
  /\ last.result = "ok"
  /\ funds.withdrawn > 0
  /\ Balance + Unwrap(last.transfer).amount >= 0
  /\ Unwrap(last.transfer).amount > Balance + Unwrap(last.transfer).amount

\* C14: is_htlc_active(h) returns true exactly when an order exists under
\* h, its state is Active and now <= timelock; so an Active order past its
\* timelock is reported inactive by is_htlc_active while get_active_orders
\* still returns it.
C14_IsActiveView ==
  \A order_hash \in OrderHashes :
    IsSwapCall("is_htlc_active", order_hash)
    => /\ last.ret = Some(/\ IsSome(swap_orders_get(order_hash))
                          /\ order_of(order_hash).state = "Active"
                          /\ now <= order_of(order_hash).timelock)
       /\ (/\ IsSome(swap_orders_get(order_hash))
           /\ order_of(order_hash).state = "Active"
           /\ now > order_of(order_hash).timelock)
          => /\ last.ret = Some(FALSE)
             /\ \E i \in 1..Len(get_active_orders_result(None, None)) :
                  get_active_orders_result(None, None)[i].order_hash
                    = order_hash

\* is_htlc_active is asked about an Active order past its timelock.
C14_Witness ==
  \E order_hash \in OrderHashes :
    /\ IsSwapCall("is_htlc_active", order_hash)
    /\ IsSome(swap_orders_get(order_hash))
    /\ order_of(order_hash).state = "Active"
    /\ now > order_of(order_hash).timelock
    /\ last.ret = Some(FALSE)

\* C15: a stored order is never deleted and get_swap_order returns it; its
\* state changes at most once, from Active to Completed or Refunded, and
\* every other field keeps the value it got at creation.
C15_OrderPersists ==
  [][\A order_hash \in OrderHashes :
       /\ IsSome(swap_orders_get(order_hash))
          => /\ IsSome(swap_orders_get(order_hash))'
             /\ [order_of(order_hash)' EXCEPT
                   !.state = order_of(order_hash).state]
                  = order_of(order_hash)
             /\ order_of(order_hash)'.state # order_of(order_hash).state
                => /\ order_of(order_hash).state = "Active"
                   /\ order_of(order_hash)'.state
                        \in {"Completed", "Refunded"}
       /\ (/\ last'.op = "get_swap_order"
           /\ last'.args = [order_hash |-> order_hash])
          => last'.ret = Some(swap_orders_get(order_hash))
    ]_vars

\* get_swap_order returns an order that was completed or refunded, with the
\* deposit it was created with.
C15_Witness ==
  \E order_hash \in OrderHashes :
    /\ IsSwapCall("get_swap_order", order_hash)
    /\ IsTerminal(order_hash)
    /\ last.ret = Some(Some(order_of(order_hash)))
    /\ order_of(order_hash).dst_amount > 0

\* The panic messages of create_htlc's preconditions, in the order claimed.
CreateErrors ==
  <<"Unsupported source chain", "Timelock too short", "Timelock too long",
    "Order already exists", "Invalid hash lock length", "Must attach deposit">>

\* For each precondition in that order, whether a call with args violates
\* it in the current state.
CreateViolated(args) ==
  <<supported_chains[args.src_chain] # Some(TRUE),
    ~(args.timelock > now + min_timelock),
    ~(args.timelock < now + max_timelock),
    IsSome(swap_orders_get(args.order_hash)),
    args.hash_lock.len # 32,
    args.deposit = 0>>

\* C16: create_htlc fails with the error of the first violated precondition
\* in the order unsupported chain, timelock too short, timelock too long,
\* order exists, hash lock length, zero deposit, and succeeds when none is
\* violated; a failed call changes no order and no deposit entry.
C16_CreateErrorOrder ==
  [][last'.op = "create_htlc"
     => /\ \A i \in 1..6 :
             (/\ CreateViolated(last'.args)[i]
              /\ \A j \in 1..(i - 1) : ~CreateViolated(last'.args)[j])
             => last'.result = CreateErrors[i]
        /\ (\A i \in 1..6 : ~CreateViolated(last'.args)[i])
             => last'.result = "ok"
        /\ last'.result # "ok" => UNCHANGED <<swap_orders, deposits>>
    ]_vars

\* C17: verify_secret(secret, hash_lock) returns true exactly when the
\* SHA-256 of secret equals hash_lock and changes no state, and it agrees
\* with complete_htlc: on an Active order with now <= timelock,
\* complete_htlc(order_hash, secret) succeeds if and only if
\* verify_secret(secret, order.hash_lock) is true.
C17_VerifySecretAgrees ==
  [][/\ \A secret \in Secrets, hash_lock \in QueryHashLocks :
          (/\ last'.op = "verify_secret"
           /\ last'.args = [secret |-> secret, hash_lock |-> hash_lock])
          => /\ last'.ret = Some(Sha256(secret) = hash_lock)
             /\ UNCHANGED <<contract, now, paid, funds>>
     /\ \A order_hash \in OrderHashes, secret \in Secrets :
          (/\ last'.op = "complete_htlc"
           /\ last'.args = [order_hash |-> order_hash, secret |-> secret]
           /\ IsSome(swap_orders_get(order_hash))
           /\ order_of(order_hash).state = "Active"
           /\ now <= order_of(order_hash).timelock)
          => (last'.result = "ok"
                <=> verify_secret_result(secret,
                                         order_of(order_hash).hash_lock))
    ]_vars

\* verify_secret refuses a secret against the hash lock of a stored Active
\* order that is not past its timelock.
C17_Witness ==
  \E order_hash \in OrderHashes :
    /\ last.op = "verify_secret"
    /\ IsSome(swap_orders_get(order_hash))
    /\ order_of(order_hash).state = "Active"
    /\ now <= order_of(order_hash).timelock
    /\ last.args.hash_lock = order_of(order_hash).hash_lock
    /\ last.ret = Some(FALSE)

\* C18: complete_htlc and refund_htlc are never both enabled for an order;
\* once refund_htlc is enabled it stays enabled, for any caller, until a
\* refund is taken; and when the block timestamp keeps advancing and an
\* enabled refund is eventually called, every stored order eventually is
\* Completed or Refunded.
C18_RefundEventually ==
  /\ [](\A order_hash \in OrderHashes, secret \in Secrets :
          ~(/\ complete_htlc_check(order_hash, secret) = "ok"
            /\ refund_htlc_check(order_hash) = "ok"))
  /\ [][\A order_hash \in OrderHashes :
          refund_htlc_check(order_hash) = "ok"
          => /\ \/ refund_htlc_check(order_hash)' = "ok"
                \/ /\ last'.op = "refund_htlc"
                   /\ order_of(order_hash)'.state = "Refunded"
             /\ (/\ last'.op = "refund_htlc"
                 /\ last'.args = [order_hash |-> order_hash])
                => last'.result = "ok"
       ]_vars
  /\ \A order_hash \in OrderHashes :
       IsSome(swap_orders_get(order_hash)) ~> IsTerminal(order_hash)

\* An order past its timelock, which could no longer be completed, was
\* refunded on the call of an account that is not its resolver.
C18_Witness ==
  \E order_hash \in OrderHashes :
    /\ IsSwapCall("refund_htlc", order_hash)
    /\ last.result = "ok"
    /\ last.caller # order_of(order_hash).resolver
    /\ order_of(order_hash).state = "Refunded"
    /\ now > order_of(order_hash).timelock

\* C19: the deposit entries sum to the deposits attached to successful
\* create_htlc calls less the amounts paid out by successful complete_htlc
\* and refund_htlc calls, and the amount paid out for an order is that
\* order's dst_amount.
C19_DepositsConserved ==
  /\ DepositsOf(OrderHashes) = funds.attached - funds.paid_out
  /\ \A order_hash \in OrderHashes :
       (/\ \/ IsSwapCall("complete_htlc", order_hash)
           \/ IsSwapCall("refund_htlc", order_hash)
        /\ last.result = "ok")
       => Unwrap(last.transfer).amount = order_of(order_hash).dst_amount

\* One order has been paid out while the deposit of another is still held.
C19_Witness ==
  /\ last.op \in {"complete_htlc", "refund_htlc"}
  /\ last.result = "ok"
  /\ funds.paid_out > 0
  /\ DepositsOf(OrderHashes) > 0

\* C20: min_timelock < max_timelock in every reachable state, from the
\* limits set at construction on, since update_timelock_limits called by
\* the owner with min >= max fails with the invalid-limits error and leaves
\* both limits as they are; and no stored order has the state Expired.
C20_LimitsOrdered ==
  /\ [](/\ min_timelock < max_timelock
        /\ last.op = "new" => /\ min_timelock = InitMinTimelock
                              /\ max_timelock = InitMaxTimelock
        /\ \A i \in 1..Len(swap_orders) : swap_orders[i].state # "Expired")
  /\ [][(/\ last'.op = "update_timelock_limits"
          /\ last'.caller = owner
          /\ last'.args.min_timelock >= last'.args.max_timelock)
         => /\ last'.result = "Invalid timelock limits"
            /\ UNCHANGED <<min_timelock, max_timelock>>
       ]_vars

\* After the limits were changed, the owner's update with min >= max was
\* rejected, while an order is stored.
C20_Witness ==
  /\ last.op = "update_timelock_limits"
  /\ last.result = "Invalid timelock limits"
  /\ min_timelock # InitMinTimelock
  /\ Len(swap_orders) > 0

====
